---- MODULE Spec2Model ----
(***************************************************************************)
(* Session-based authentication layer of the movie library:                *)
(*   routes/authRoutes.js   session store, signer, middleware, auth routes *)
(*   middleware/auth.js     requireAuth, checkOwnership                    *)
(*   routes/movieRoutes.js  POST /, PUT /:id, DELETE /:id                  *)
(*   models/User.js         hashPassword, verifyPassword                   *)
(*   scripts/create-admin.js                                               *)
(*                                                                         *)
(* Hex strings (signatures, salts, hashes) are sequences of one-character  *)
(* strings; user names and passwords are opaque strings.  Time is counted  *)
(* in ticks; the session lifetime and the sweep period are scaled to a few *)
(* ticks so that expiry and sweeps both happen within MaxTime.             *)
(* An optional value (null / undefined in the source) is a sequence of     *)
(* length 0 or 1.                                                          *)
(***************************************************************************)
EXTENDS Integers, Sequences, FiniteSets, TLC

\* ---------------------------------------------------------------- bounds
MaxTime == 5
MaxSessions == 2
MaxUsers == 2
MaxMovies == 1
MaxInflight == 2

\* ------------------------------------------------------ program constants
\* authRoutes.js:10: the session lifetime, 86400000 ms in the source, here in
\* ticks.  The lifetime and the sweep period are scaled separately (the
\* source's ratio of 24 sweeps per lifetime is not kept); the properties
\* below speak of one lifetime and one period, never of their ratio.
SESSION_MAX_AGE == 1
\* authRoutes.js:267: the period of the sweep timer, 3600000 ms in the source
SWEEP_INTERVAL == 2
\* Date.now() when authRoutes.js is loaded and setInterval is armed
StartTime == 1

None == << >>
Some(x) == << x >>

\* ------------------------------------------------------------ hex, Buffer
HexLower == << "0","1","2","3","4","5","6","7","8","9","a","b","c","d","e","f" >>
HexUpper == << "0","1","2","3","4","5","6","7","8","9","A","B","C","D","E","F" >>

\* value of one hex character, -1 when it is not a hex digit
HexDigits ==
  ("0" :> 0) @@ ("1" :> 1) @@ ("2" :> 2) @@ ("3" :> 3) @@ ("4" :> 4) @@
  ("5" :> 5) @@ ("6" :> 6) @@ ("7" :> 7) @@ ("8" :> 8) @@ ("9" :> 9) @@
  ("a" :> 10) @@ ("b" :> 11) @@ ("c" :> 12) @@ ("d" :> 13) @@ ("e" :> 14) @@
  ("f" :> 15) @@ ("A" :> 10) @@ ("B" :> 11) @@ ("C" :> 12) @@ ("D" :> 13) @@
  ("E" :> 14) @@ ("F" :> 15)

HexVal(c) == IF c \in DOMAIN HexDigits THEN HexDigits[c] ELSE -1

\* buf.toString('hex'): two lower-case digits per byte
RECURSIVE ToHex(_)
ToHex(bytes) ==
  IF bytes = << >> THEN << >>
  ELSE << HexLower[(Head(bytes) \div 16) + 1], HexLower[(Head(bytes) % 16) + 1] >>
       \o ToHex(Tail(bytes))

\* Buffer.from(str, 'hex'): decodes pairs of digits and stops at the first
\* pair that is not two hex digits; a trailing single character is dropped
RECURSIVE BufferFromHex(_)
BufferFromHex(str) ==
  IF Len(str) < 2 THEN << >>
  ELSE IF HexVal(str[1]) < 0 \/ HexVal(str[2]) < 0 THEN << >>
  ELSE << HexVal(str[1]) * 16 + HexVal(str[2]) >>
       \o BufferFromHex(SubSeq(str, 3, Len(str)))

\* crypto.timingSafeEqual: throws a RangeError when the byte lengths differ
timingSafeEqual(a, b) ==
  IF Len(a) # Len(b) THEN "throw"
  ELSE IF a = b THEN "true" ELSE "false"

\* String.prototype.toUpperCase on a hex string
ToUpper(str) ==
  [i \in 1..Len(str) |->
    IF HexVal(str[i]) >= 0 THEN HexUpper[HexVal(str[i]) + 1] ELSE str[i]]

\* ---------------------------------------------------------- SessionSigner
SessionIds == 1..MaxSessions

\* HMAC-SHA256 under SESSION_SECRET: a keyed digest, distinct per session id
HmacDigest(sessionId) == << (171 + 34 * (sessionId - 1)) % 256 >>

signSessionId(sessionId) == ToHex(HmacDigest(sessionId))

verifySessionId(sessionId, signature) ==
  timingSafeEqual(BufferFromHex(signature), BufferFromHex(signSessionId(sessionId)))

\* ------------------------------------------------------- CredentialHasher
Passwords == { "secret1", "Admin123!" }
PwCode(password) == IF password = "secret1" THEN 1 ELSE 2

\* crypto.randomBytes(16).toString('hex') for the n-th credential record:
\* a fresh salt per call
SaltOf(n) == ToHex(<< n >>)

\* crypto.pbkdf2Sync(password, salt, 10000, 64, digest).toString('hex'):
\* a deterministic key of fixed length that depends on the password, the
\* salt and the digest algorithm
Pbkdf2Hex(password, salt, digest) ==
  ToHex(<< (IF digest = "sha512" THEN 16 ELSE 32) + PwCode(password),
           IF BufferFromHex(salt) = << >> THEN 0 ELSE BufferFromHex(salt)[1] >>)

\* String.prototype.split(':')
RECURSIVE SplitColon(_)
SplitColon(str) ==
  IF \A i \in 1..Len(str) : str[i] # ":" THEN << str >>
  ELSE LET k == CHOOSE i \in 1..Len(str) :
                  str[i] = ":" /\ \A j \in 1..(i - 1) : str[j] # ":"
       IN << SubSeq(str, 1, k - 1) >> \o SplitColon(SubSeq(str, k + 1, Len(str)))

\* register route: `${salt}:${hash}` with PBKDF2-SHA512
RegisterHash(password, salt) == salt \o << ":" >> \o Pbkdf2Hex(password, salt, "sha512")

\* User.hashPassword: `${salt}:${hash}` with PBKDF2-SHA256
hashPassword(password, salt) == salt \o << ":" >> \o Pbkdf2Hex(password, salt, "sha256")

\* User.verifyPassword: recompute with SHA256 and compare with ===
verifyPassword(password, hashedPassword) ==
  LET parts == SplitColon(hashedPassword)
      salt == parts[1]
  IN Len(parts) >= 2 /\ parts[2] = Pbkdf2Hex(password, salt, "sha256")

\* login route: recompute with SHA512 and compare with timingSafeEqual;
\* Buffer.from(undefined, 'hex') throws a TypeError
LoginPasswordCheck(password, stored) ==
  LET parts == SplitColon(stored)
      salt == parts[1]
  IN IF Len(parts) < 2 THEN "throw"
     ELSE timingSafeEqual(BufferFromHex(Pbkdf2Hex(password, salt, "sha512")),
                          BufferFromHex(parts[2]))

\* ------------------------------------------------------------------ state
VARIABLES
  users,      \* User collection: sequence of credential records, _id = index
  sessions,   \* the sessions Map: sessionId -> [data, expiresAt]
  issued,     \* number of session ids generateSessionId has returned
  movies,     \* Movie collection: _id -> [createdBy, updatedBy]
  created,    \* number of Movie documents ever saved
  now,        \* Date.now()
  nextSweep,  \* time at which the setInterval callback is due
  inflight,   \* a request suspended at an await, or None
  resp,       \* the last response sent, with the request it answers
  loggedOut,  \* session ids a logout request has deleted from the store
  env         \* process.env.SESSION_MAX_AGE: None when unset, else a string

vars == << users, sessions, issued, movies, created, now, nextSweep,
           inflight, resp, loggedOut, env >>

\* ObjectId.prototype.toString and the cast mongoose applies to a string
IdToString(id) == << "oid", id >>
CastObjectId(str) == str[2]

\* ---------------------------------------------------- request inputs
\* the Cookie header after cookie.match(/sessionId=([^;]+)/) and
\* match[1].split('.'): present = the header exists and the pattern matches;
\* sessionId 0 is the empty string; signature None is undefined (no dot)
NoCookie == [present |-> FALSE, sessionId |-> 0, signature |-> None]

OtherSessionId(s) == IF s = 1 THEN 2 ELSE 1

SignatureInputs(s) ==
  { None,
    Some(<< >>),
    Some(signSessionId(s)),
    Some(ToUpper(signSessionId(s))),
    Some(signSessionId(s) \o << "g" >>),
    Some(signSessionId(s) \o << "0", "0" >>),
    Some(signSessionId(OtherSessionId(s))) }

CookieInputs ==
  { NoCookie } \cup
  UNION { { [present |-> TRUE, sessionId |-> s, signature |-> g] :
              g \in SignatureInputs(s) } : s \in SessionIds }

\* the cookie res.cookie sets: `${sessionId}.${signature}`
CookieFor(sessionId) ==
  [present |-> TRUE, sessionId |-> sessionId,
   signature |-> Some(signSessionId(sessionId))]

\* a cookie whose signature has the wrong length
ShortCookie == [present |-> TRUE, sessionId |-> 1, signature |-> Some(<< "0", "0", "0", "0" >>)]

\* the cookies a well-behaved client sends, and one with a bad signature
ClientCookies == { NoCookie, ShortCookie } \cup { CookieFor(s) : s \in SessionIds }

UsernameInputs == { "alice", "admin", " alice " }
\* String.prototype.trim
Trim(username) == IF username = " alice " THEN "alice" ELSE username
PasswordInputs == Passwords \cup { "" }

\* ------------------------------------------------------ SessionMiddleware
\* router.use(...) of authRoutes.js: the session context, the session id
\* attached to the request, and the store it leaves; outcome "throw" when
\* verifySessionId throws (Express then answers 500 and skips the route)
StoreDelete(store, sessionId) ==
  [k \in DOMAIN store \ { sessionId } |-> store[k]]

SessionMiddlewareNoEvict(cookie, store, t) ==
  LET pass == [outcome |-> "next", session |-> None, sessionId |-> None,
               store |-> store]
  IN IF ~cookie.present THEN pass
     ELSE IF cookie.sessionId = 0 \/ cookie.signature = None THEN pass
     ELSE IF cookie.signature[1] = << >> THEN pass
     ELSE LET v == verifySessionId(cookie.sessionId, cookie.signature[1])
          IN IF v = "throw" THEN [pass EXCEPT !.outcome = "throw"]
             ELSE IF v = "false" THEN pass
             ELSE IF cookie.sessionId \in DOMAIN store
                      /\ store[cookie.sessionId].expiresAt > t
               THEN [pass EXCEPT !.session = Some(store[cookie.sessionId].data),
                                 !.sessionId = Some(cookie.sessionId)]
               ELSE pass

SessionMiddlewareConsume(cookie, store, t) ==
  LET pass == [outcome |-> "next", session |-> None, sessionId |-> None,
               store |-> store]
  IN IF ~cookie.present THEN pass
     ELSE IF cookie.sessionId = 0 \/ cookie.signature = None THEN pass
     ELSE IF cookie.signature[1] = << >> THEN pass
     ELSE LET v == verifySessionId(cookie.sessionId, cookie.signature[1])
          IN IF v = "throw" THEN [pass EXCEPT !.outcome = "throw"]
             ELSE IF v = "false" THEN pass
             ELSE IF cookie.sessionId \in DOMAIN store
                      /\ store[cookie.sessionId].expiresAt > t
               THEN [pass EXCEPT !.session = Some(store[cookie.sessionId].data),
                                 !.sessionId = Some(cookie.sessionId),
                                 !.store = StoreDelete(store, cookie.sessionId)]
               ELSE [pass EXCEPT !.store = StoreDelete(store, cookie.sessionId)]

SessionMiddleware(cookie, store, t) ==
  LET pass == [outcome |-> "next", session |-> None, sessionId |-> None,
               store |-> store]
  IN IF ~cookie.present THEN pass
     ELSE IF cookie.sessionId = 0 \/ cookie.signature = None THEN pass
     ELSE IF cookie.signature[1] = << >> THEN pass
     ELSE LET v == verifySessionId(cookie.sessionId, cookie.signature[1])
          IN IF v = "throw" THEN [pass EXCEPT !.outcome = "throw"]
             ELSE IF v = "false" THEN pass
             ELSE IF cookie.sessionId \in DOMAIN store
                      /\ store[cookie.sessionId].expiresAt > t
               THEN [pass EXCEPT !.session = Some(store[cookie.sessionId].data),
                                 !.sessionId = Some(cookie.sessionId)]
               ELSE [pass EXCEPT !.store = StoreDelete(store, cookie.sessionId)]

\* Number.prototype.toString: the decimal digits of a natural number
RECURSIVE ToDecimal(_)
ToDecimal(n) ==
  IF n < 10 THEN << HexLower[n + 1] >>
  ELSE ToDecimal(n \div 10) \o << HexLower[(n % 10) + 1] >>

\* the number a string of decimal digits is coerced to by `<` and `>`
RECURSIVE ToNumber(_)
ToNumber(str) ==
  IF str = << >> THEN 0
  ELSE 10 * ToNumber(SubSeq(str, 1, Len(str) - 1)) + HexVal(str[Len(str)])

\* line 10: process.env.SESSION_MAX_AGE || 86400000.  A value taken from the
\* environment is a string, the default is a number.
SessionMaxAgeIsString == env # None /\ env[1] # << >>

\* Date.now() + SESSION_MAX_AGE: a sum when SESSION_MAX_AGE is the default
\* number, a concatenation of decimal strings when it came from the
\* environment.  The only readers of expiresAt (lines 51 and 262) compare it
\* with a number, which coerces a string to the number it spells; the store
\* entry holds that number here.
ExpiresAt(t) ==
  IF SessionMaxAgeIsString
    THEN ToNumber(ToDecimal(t) \o env[1])
    ELSE t + SESSION_MAX_AGE

\* sessions.set(sessionId, {data: {userId, username, role}, expiresAt})
\* for the user document `user` whose _id is userId
MintSessionDefaultRole(store, sessionId, userId, user, t) ==
  [k \in DOMAIN store \cup { sessionId } |->
    IF k = sessionId
      THEN [data |-> [userId |-> IdToString(userId),
                      username |-> user.username,
                      role |-> "user"],
            expiresAt |-> ExpiresAt(t)]
      ELSE store[k]]

MintSession(store, sessionId, userId, user, t) ==
  [k \in DOMAIN store \cup { sessionId } |->
    IF k = sessionId
      THEN [data |-> [userId |-> IdToString(userId),
                      username |-> user.username,
                      role |-> user.role],
            expiresAt |-> ExpiresAt(t)]
      ELSE store[k]]

\* the response record: what the client sees, with the session context
\* (req.session) the route ran under
Response(op, session, status, body, setCookie) ==
  [op |-> op, mw |-> "next", session |-> session,
   status |-> status, body |-> body, setCookie |-> setCookie]

\* Express's default error handler after the session middleware threw:
\* the route is skipped and req.session was never assigned
MiddlewareError(op) ==
  [op |-> op, mw |-> "throw", session |-> None,
   status |-> 500, body |-> [error |-> "Internal Server Error"],
   setCookie |-> None]

\* the values SESSION_MAX_AGE may be given in the environment; the empty
\* string is falsy, so `||` then takes the default
EnvInputs == { None, Some(<< >>), Some(<< "1" >>), Some(<< "2" >>) }

\* the process right after the modules are loaded
InitState ==
  /\ users = << >>
  /\ sessions = << >>
  /\ issued = 0
  /\ movies = << >>
  /\ created = 0
  /\ now = StartTime
  /\ nextSweep = StartTime + SWEEP_INTERVAL
  /\ inflight = None
  /\ resp = [op |-> "none"]
  /\ loggedOut = {}

\* SESSION_MAX_AGE is not set in the environment
Init == InitState /\ env = None

\* SESSION_MAX_AGE is set, or not, by whoever starts the process
InitConfig == InitState /\ env \in EnvInputs

\* ------------------------------------------------------------ AuthRoutes
\* User.findOne({ username }): the _id of the record, or None
FindUser(username) ==
  IF \E i \in DOMAIN users : users[i].username = username
    THEN Some(CHOOSE i \in DOMAIN users : users[i].username = username)
    ELSE None

\* the user object register and login return
UserBody(message, userId, user) ==
  [message |-> message,
   user |-> [id |-> userId, username |-> user.username, role |-> user.role]]

\* String.prototype.length of the strings the requests carry
StrLen ==
  ("" :> 0) @@ ("ab" :> 2) @@ ("123" :> 3) @@ ("alice" :> 5) @@ ("admin" :> 5) @@
  (" alice " :> 7) @@ ("secret1" :> 7) @@ ("Admin123!" :> 9)

\* /^[^\s@]+@[^\s@]+\.[^\s@]+$/.test(email), for the e-mail inputs
EmailInputs == { None, Some("alice@example.com"), Some("not-an-email") }
EmailMatches(email) == email = "alice@example.com"

\* register, lines 73-84: the first rule violated, or None.  email is None
\* when the body has no email field.
RegisterValidation(username, password, email) ==
  IF username = "" \/ StrLen[Trim(username)] < 3
    THEN Some("Username must be at least 3 characters")
  ELSE IF password = "" \/ StrLen[password] < 6
    THEN Some("Password must be at least 6 characters")
  ELSE IF email # None /\ ~EmailMatches(email[1])
    THEN Some("Invalid email format")
  ELSE None

\* the role of the record register creates (line 101), for the request body
RegisterRoleFromBody(body) ==
  IF body.role # None THEN body.role[1] ELSE "user"

RegisterRole(body) == "user"

\* the sequence without its i-th element
RemoveAt(seq, i) == SubSeq(seq, 1, i - 1) \o SubSeq(seq, i + 1, Len(seq))

\* POST /register up to `await User.findOne`, whose result it reads; body is
\* req.body, and slots is the number of requests that may be suspended at
\* an await at a time
RegisterRequest(cookie, body, slots) ==
  LET m == SessionMiddleware(cookie, sessions, now)
      invalid == RegisterValidation(body.username, body.password, body.email)
  IN /\ Len(inflight) < slots
     /\ sessions' = m.store
     /\ UNCHANGED << env, users, issued, movies, created, now, nextSweep, loggedOut >>
     /\ IF m.outcome = "throw"
          THEN /\ resp' = MiddlewareError("register")
               /\ UNCHANGED inflight
        ELSE IF invalid # None
          THEN /\ resp' = Response("register", m.session, 400,
                                   [error |-> invalid[1]], None)
               /\ UNCHANGED inflight
        ELSE IF FindUser(Trim(body.username)) # None
          THEN /\ resp' = Response("register", m.session, 400,
                                   [error |-> "Username already exists"], None)
               /\ UNCHANGED inflight
        ELSE /\ inflight' = Append(inflight,
                               [op |-> "register", session |-> m.session,
                                username |-> Trim(body.username),
                                password |-> body.password,
                                role |-> RegisterRole(body)])
             /\ UNCHANGED resp

\* a register request whose body holds a user name and a password only,
\* sent while no other request is suspended
RegisterStart(cookie, username, password) ==
  RegisterRequest(cookie, [username |-> username, password |-> password,
                           email |-> None, role |-> None], 1)

\* POST /register from `await user.save()` on, for the i-th suspended
\* request: the unique index on username rejects a duplicate, and the catch
\* block answers 500
RegisterFinishAt(i) ==
  /\ i \in DOMAIN inflight
  /\ inflight[i].op = "register"
  /\ LET r == inflight[i]
         userId == Len(users) + 1
         sessionId == issued + 1
         user == [username |-> r.username,
                  password |-> RegisterHash(r.password, SaltOf(userId)),
                  role |-> r.role,
                  plain |-> r.password]
     IN IF FindUser(r.username) # None
          THEN /\ resp' = Response("register", r.session, 500,
                                   [error |-> "Registration failed"], None)
               /\ UNCHANGED << users, sessions, issued >>
          ELSE /\ Len(users) < MaxUsers
               /\ issued < MaxSessions
               /\ users' = Append(users, user)
               /\ issued' = sessionId
               /\ sessions' = MintSession(sessions, sessionId, userId, user, now)
               /\ resp' = Response("register", r.session, 201,
                             UserBody("User registered successfully", userId, user),
                             Some(CookieFor(sessionId)))
  /\ inflight' = RemoveAt(inflight, i)
  /\ UNCHANGED << env, movies, created, now, nextSweep, loggedOut >>

RegisterFinish == RegisterFinishAt(1)

\* POST /login, lines 151-168: the refusal for the user document found (None
\* when there is none) and the password, or None when the password verifies
LoginRefusalEnumerating(found, password) ==
  IF found = None THEN Some([status |-> 404, error |-> "User not found"])
  ELSE LET v == LoginPasswordCheck(password, found[1].password)
       IN IF v = "throw" THEN Some([status |-> 500, error |-> "Login failed"])
          ELSE IF v = "false"
            THEN Some([status |-> 401, error |-> "Invalid credentials"])
          ELSE None

LoginRefusal(found, password) ==
  IF found = None THEN Some([status |-> 401, error |-> "Invalid credentials"])
  ELSE LET v == LoginPasswordCheck(password, found[1].password)
       IN IF v = "throw" THEN Some([status |-> 500, error |-> "Login failed"])
          ELSE IF v = "false"
            THEN Some([status |-> 401, error |-> "Invalid credentials"])
          ELSE None

\* POST /login
Login(cookie, username, password) ==
  LET m == SessionMiddleware(cookie, sessions, now)
      found == FindUser(Trim(username))
      refusal == LoginRefusal(IF found = None THEN None ELSE Some(users[found[1]]),
                              password)
      sessionId == issued + 1
      Fail(status, error) ==
        /\ resp' = Response("login", m.session, status,
                            [error |-> error], None)
        /\ sessions' = m.store
        /\ UNCHANGED issued
  IN /\ UNCHANGED << env, users, movies, created, now, nextSweep, inflight, loggedOut >>
     /\ IF m.outcome = "throw"
          THEN /\ resp' = MiddlewareError("login")
               /\ UNCHANGED << sessions, issued >>
        ELSE IF username = "" \/ password = ""
          THEN Fail(400, "Username and password are required")
        ELSE IF refusal # None THEN Fail(refusal[1].status, refusal[1].error)
        ELSE LET user == users[found[1]]
             IN      /\ issued < MaxSessions
                     /\ issued' = sessionId
                     /\ sessions' = MintSession(m.store, sessionId, found[1], user, now)
                     /\ resp' = Response("login", m.session, 200,
                                   UserBody("Login successful", found[1], user),
                                   Some(CookieFor(sessionId)))

\* POST /logout, lines 210-212: the store after the handler, m being what
\* the session middleware returned
LogoutStoreKeep(m) == m.store

LogoutStore(m) ==
  IF m.sessionId # None THEN StoreDelete(m.store, m.sessionId[1]) ELSE m.store

\* POST /logout; res.clearCookie is a Set-Cookie that removes the cookie
Logout(cookie) ==
  LET m == SessionMiddleware(cookie, sessions, now)
  IN /\ UNCHANGED << env, users, issued, movies, created, now, nextSweep, inflight >>
     /\ IF m.outcome = "throw"
          THEN /\ resp' = MiddlewareError("logout")
               /\ UNCHANGED << sessions, loggedOut >>
          ELSE /\ sessions' = LogoutStore(m)
               /\ loggedOut' = IF m.sessionId # None
                                THEN loggedOut \cup { m.sessionId[1] }
                                ELSE loggedOut
               /\ resp' = Response("logout", m.session, 200,
                                   [message |-> "Logout successful"], Some(NoCookie))

\* GET /me
Whoami(cookie) ==
  LET m == SessionMiddleware(cookie, sessions, now)
  IN /\ UNCHANGED << env, users, issued, movies, created, now, nextSweep, inflight,
                     loggedOut >>
     /\ IF m.outcome = "throw"
          THEN /\ resp' = MiddlewareError("me")
               /\ UNCHANGED sessions
          ELSE /\ sessions' = m.store
               /\ resp' = IF m.session # None
                   THEN Response("me", m.session, 200,
                                 [userId |-> m.session[1].userId,
                                  username |-> m.session[1].username,
                                  role |-> m.session[1].role], None)
                   ELSE Response("me", m.session, 401,
                                 [error |-> "Not authenticated"], None)

\* User.find().select('-password').sort({ createdAt: -1 }): every record
\* without its password field, newest first
SanitizedUsers ==
  [i \in 1..Len(users) |->
     LET k == Len(users) - i + 1
     IN [id |-> k, username |-> users[k].username, role |-> users[k].role]]

\* GET /users
ListUsers(cookie) ==
  LET m == SessionMiddleware(cookie, sessions, now)
  IN /\ UNCHANGED << env, users, issued, movies, created, now, nextSweep,
                     inflight, loggedOut >>
     /\ IF m.outcome = "throw"
          THEN /\ resp' = MiddlewareError("users")
               /\ UNCHANGED sessions
          ELSE /\ sessions' = m.store
               /\ resp' = IF m.session = None \/ m.session[1].role # "admin"
                   THEN Response("users", m.session, 403,
                                 [error |-> "Admin access required"], None)
                   ELSE Response("users", m.session, 200,
                                 [users |-> SanitizedUsers], None)

\* setInterval callback: delete every entry with expiresAt < now
SweepExpiredReversed(store, t) ==
  [k \in { x \in DOMAIN store : ~(store[x].expiresAt > t) } |-> store[k]]

SweepExpired(store, t) ==
  [k \in { x \in DOMAIN store : ~(store[x].expiresAt < t) } |-> store[k]]

Sweep ==
  /\ now = nextSweep
  /\ sessions' = SweepExpired(sessions, now)
  /\ nextSweep' = nextSweep + SWEEP_INTERVAL
  /\ UNCHANGED << env, users, issued, movies, created, now, inflight, resp, loggedOut >>

\* the clock advances; a due sweep runs before time moves on
Tick ==
  /\ now < MaxTime
  /\ now < nextSweep
  /\ now' = now + 1
  /\ UNCHANGED << env, users, sessions, issued, movies, created, nextSweep, inflight,
                  resp, loggedOut >>

\* scripts/create-admin.js: promote an existing 'admin' record, or create
\* one whose password is hashed by User.hashPassword
CreateAdmin ==
  LET existing == FindUser("admin")
      userId == Len(users) + 1
  IN /\ IF existing # None
          THEN users' = [users EXCEPT ![existing[1]].role = "admin"]
          ELSE /\ Len(users) < MaxUsers
               /\ users' = Append(users,
                    [username |-> "admin",
                     password |-> hashPassword("Admin123!", SaltOf(userId)),
                     role |-> "admin",
                     plain |-> "Admin123!"])
     /\ UNCHANGED << env, sessions, issued, movies, created, now, nextSweep, inflight,
                     resp, loggedOut >>

\* ------------------------------------------------------- AuthorizationGuards
\* every request passes through the session middleware before it reaches a
\* route handler of the movie router
AppPipeline(cookie, store, t) == SessionMiddleware(cookie, store, t)

\* where app.js mounts the movie router: the prefix the route comments of
\* movieRoutes.js give (POST /api/movies is router.post('/'))
MoviesMount == << "api", "movies" >>

\* A URL path: its segments, and whether it ends with a slash.  Inside a
\* mounted router req.path is the path after the mount point.
RoutePath(segs, slash) == [segs |-> segs, slash |-> slash]
OriginalUrl(path) == RoutePath(MoviesMount \o path.segs, path.slash)

\* path.startsWith('/api/')
PathStartsWithApi(path) ==
  /\ Len(path.segs) >= 1
  /\ path.segs[1] = "api"
  /\ (Len(path.segs) >= 2 \/ path.slash)

\* the :id segment of a request: id 0, an id that is no ObjectId, is the
\* string 'api'
IdParam(id) == IF id = 0 THEN "api" ELSE "objectid"

\* requireAuth: next() when the context carries a userId
requireAuth(session) == session # None /\ session[1].userId # << >>

\* requireAuth's refusal: 401 for a path under /api/, else a redirect
AuthRefusal(op, session, pathIsApi) ==
  IF pathIsApi
    THEN Response(op, session, 401,
                  [error |-> "Authentication required"], None)
    ELSE Response(op, session, 302, [redirect |-> "/login"], None)

\* checkOwnership('movie') for an authenticated context; resource is what
\* Movie.findById returned (None when no such document), and is consulted
\* only when the role is not admin
checkOwnershipNoCompare(session, resource) ==
  IF session.role = "admin" THEN "next"
  ELSE IF resource = None THEN "404"
  ELSE "next"

checkOwnership(session, resource) ==
  IF session.role = "admin" THEN "next"
  ELSE IF resource = None THEN "404"
  ELSE IF IdToString(resource[1].createdBy) # session.userId THEN "403"
  ELSE "next"

\* the responses of checkOwnership's refusals
OwnershipRefusal(op, session, decision) ==
  IF decision = "404"
    THEN Response(op, session, 404, [error |-> "Movie not found"], None)
    ELSE Response(op, session, 403,
           [error |-> "Access denied: You can only modify your own movies"], None)

\* Movie.findById(id); id 0 stands for an id that is not an ObjectId
FindMovie(id) == IF id \in DOMAIN movies THEN Some(movies[id]) ELSE None

MovieIdInputs == 0..MaxMovies

\* ------------------------------------------------------------ movieRoutes
\* req.body of POST / and PUT /:id: whether its fields pass the handler's
\* validation, and the createdBy field a client may put into it (a user id)
MovieBodies == [valid : BOOLEAN, createdBy : { None } \cup { Some(u) : u \in 1..MaxUsers }]

\* new Movie({...}) of POST /: the body's fields the handler destructures,
\* with createdBy and updatedBy from the session
NewMovie(body, session) ==
  [createdBy |-> CastObjectId(session[1].userId),
   updatedBy |-> CastObjectId(session[1].userId)]

\* updateData of PUT /:id: the fields findByIdAndUpdate is given
updateDataFromBody(body, session) ==
  IF body.createdBy = None
    THEN [updatedBy |-> CastObjectId(session[1].userId)]
    ELSE [updatedBy |-> CastObjectId(session[1].userId),
          createdBy |-> body.createdBy[1]]

updateData(body, session) == [updatedBy |-> CastObjectId(session[1].userId)]

\* findByIdAndUpdate: the document with the given fields set
ApplyUpdate(movie, data) ==
  [f \in DOMAIN movie |-> IF f \in DOMAIN data THEN data[f] ELSE movie[f]]

\* POST /api/movies, router.post('/'); the router matches '/' only, so
\* req.path is '/'.  The body is an input of the request, drawn where the
\* code reads it
CreateMovie(cookie) ==
  LET m == AppPipeline(cookie, sessions, now)
      id == created + 1
  IN /\ UNCHANGED << env, users, issued, now, nextSweep, inflight, loggedOut >>
     /\ IF m.outcome = "throw"
          THEN /\ resp' = MiddlewareError("create")
               /\ UNCHANGED << sessions, movies, created >>
        ELSE /\ sessions' = m.store
             /\ IF ~requireAuth(m.session)
                  THEN /\ resp' = AuthRefusal("create", m.session,
                                    PathStartsWithApi(RoutePath(<< >>, TRUE)))
                       /\ UNCHANGED << movies, created >>
                ELSE \E body \in MovieBodies :
                  IF ~body.valid
                  THEN /\ resp' = Response("create", m.session, 400,
                                           [error |-> "Invalid movie"], None)
                       /\ UNCHANGED << movies, created >>
                  ELSE
                     /\ created < MaxMovies
                     /\ created' = id
                     /\ movies' = [k \in DOMAIN movies \cup { id } |->
                          IF k = id THEN NewMovie(body, m.session)
                          ELSE movies[k]]
                     /\ resp' = Response("create", m.session, 201,
                                         [id |-> id], None)

\* the PUT /:id and DELETE /:id handlers, run once both guards called next():
\* the outcome of findByIdAndUpdate / findByIdAndDelete on the collection
MutateMovie(op, session, id) ==
  \E body \in MovieBodies :
     IF op = "put" /\ ~body.valid
       THEN /\ resp' = Response(op, session, 400,
                                [error |-> "Invalid movie"], None)
            /\ UNCHANGED movies
     ELSE IF id = 0
       THEN /\ resp' = Response(op, session, 400,
                                [error |-> "Invalid movie ID format"], None)
            /\ UNCHANGED movies
     ELSE IF id \notin DOMAIN movies
       THEN /\ resp' = Response(op, session, 404,
                                [error |-> "Movie not found"], None)
            /\ UNCHANGED movies
     ELSE /\ movies' = IF op = "put"
                         THEN [movies EXCEPT ![id] =
                                 ApplyUpdate(@, updateData(body, session))]
                         ELSE [k \in DOMAIN movies \ { id } |-> movies[k]]
          /\ resp' = Response(op, session, 200, [id |-> id], None)

\* PUT /:id and DELETE /:id up to checkOwnership's `await Movie.findById`,
\* whose result it reads; an admin reaches the handler without awaiting
MutateStart(op, cookie, id) ==
  LET m == AppPipeline(cookie, sessions, now)
  IN /\ UNCHANGED << env, users, issued, created, now, nextSweep, loggedOut >>
     /\ IF m.outcome = "throw"
          THEN /\ resp' = MiddlewareError(op)
               /\ UNCHANGED << sessions, movies, inflight >>
        ELSE /\ sessions' = m.store
             /\ IF ~requireAuth(m.session)
                  THEN /\ \E slash \in BOOLEAN :
                            resp' = AuthRefusal(op, m.session,
                              PathStartsWithApi(RoutePath(<< IdParam(id) >>, slash)))
                       /\ UNCHANGED << movies, inflight >>
                ELSE IF checkOwnership(m.session[1], None) = "next"
                  THEN /\ MutateMovie(op, m.session, id)
                       /\ UNCHANGED inflight
                ELSE IF id = 0
                  THEN /\ resp' = Response(op, m.session, 500,
                                           [error |-> "Internal server error"], None)
                       /\ UNCHANGED << movies, inflight >>
                ELSE /\ inflight = None
                     /\ inflight' = Some([op |-> op, session |-> m.session,
                                          id |-> id, resource |-> FindMovie(id)])
                     /\ UNCHANGED << movies, resp >>

\* the rest of checkOwnership, then the handler
MutateFinishNoShortCircuit ==
  /\ inflight # None
  /\ inflight[1].op \in { "put", "delete" }
  /\ LET r == inflight[1]
     IN MutateMovie(r.op, r.session, r.id)
  /\ inflight' = None
  /\ UNCHANGED << env, users, sessions, issued, created, now, nextSweep, loggedOut >>

MutateFinish ==
  /\ inflight # None
  /\ inflight[1].op \in { "put", "delete" }
  /\ LET r == inflight[1]
         decision == checkOwnership(r.session[1], r.resource)
     IN IF decision # "next"
          THEN /\ resp' = OwnershipRefusal(r.op, r.session, decision)
               /\ UNCHANGED movies
          ELSE MutateMovie(r.op, r.session, r.id)
  /\ inflight' = None
  /\ UNCHANGED << env, users, sessions, issued, created, now, nextSweep, loggedOut >>

\* requireAdmin: None when it calls next(), else the response it sends.
\* The authentication test comes first; each refusal has a JSON form for a
\* path under /api/ and a page form otherwise.
requireAdminRoleFirst(op, session, pathIsApi) ==
  IF session = None \/ session[1].role # "admin"
    THEN Some(Response(op, session, 403,
                IF pathIsApi THEN [error |-> "Admin access required"]
                ELSE [text |-> "Forbidden: Admin access required"], None))
  ELSE None

requireAdmin(op, session, pathIsApi) ==
  IF session = None \/ session[1].userId = << >>
    THEN Some(AuthRefusal(op, session, pathIsApi))
  ELSE IF session[1].role # "admin"
    THEN Some(Response(op, session, 403,
                IF pathIsApi THEN [error |-> "Admin access required"]
                ELSE [text |-> "Forbidden: Admin access required"], None))
  ELSE None

\* GET /admin/all: every movie, to an admin
AdminAll(cookie) ==
  LET m == AppPipeline(cookie, sessions, now)
  IN /\ UNCHANGED << env, users, issued, movies, created, now, nextSweep,
                     inflight, loggedOut >>
     /\ IF m.outcome = "throw"
          THEN /\ resp' = MiddlewareError("admin-all")
               /\ UNCHANGED sessions
        ELSE /\ sessions' = m.store
             /\ \E slash \in BOOLEAN :
                  LET refusal == requireAdmin("admin-all", m.session,
                        PathStartsWithApi(RoutePath(<< "admin", "all" >>, slash)))
                  IN resp' = IF refusal # None THEN refusal[1]
                             ELSE Response("admin-all", m.session, 200,
                                           [movies |-> DOMAIN movies], None)

\* DELETE /admin/:id: delete any movie, for an admin
AdminDelete(cookie, id) ==
  LET m == AppPipeline(cookie, sessions, now)
  IN /\ UNCHANGED << env, users, issued, created, now, nextSweep, inflight,
                     loggedOut >>
     /\ IF m.outcome = "throw"
          THEN /\ resp' = MiddlewareError("admin-delete")
               /\ UNCHANGED << sessions, movies >>
        ELSE /\ sessions' = m.store
             /\ \E slash \in BOOLEAN :
                  LET refusal == requireAdmin("admin-delete", m.session,
                        PathStartsWithApi(RoutePath(<< "admin", IdParam(id) >>, slash)))
                  IN IF refusal # None
                       THEN resp' = refusal[1] /\ UNCHANGED movies
                     ELSE IF id = 0
                       THEN /\ resp' = Response("admin-delete", m.session, 400,
                                          [error |-> "Invalid movie ID format"], None)
                            /\ UNCHANGED movies
                     ELSE IF id \notin DOMAIN movies
                       THEN /\ resp' = Response("admin-delete", m.session, 404,
                                          [error |-> "Movie not found"], None)
                            /\ UNCHANGED movies
                     ELSE /\ movies' = [k \in DOMAIN movies \ { id } |-> movies[k]]
                          /\ resp' = Response("admin-delete", m.session, 200,
                                              [id |-> id], None)

\* --------------------------------------------------------- specification
\* the auth router with its sweep timer, and the admin bootstrap script
AuthNext ==
  \/ \E c \in { NoCookie }, u \in UsernameInputs, p \in { "secret1", "" } :
       RegisterStart(c, u, p)
  \/ RegisterFinish
  \/ \E c \in { NoCookie }, u \in UsernameInputs, p \in PasswordInputs :
       Login(c, u, p)
  \/ \E c \in CookieInputs : Logout(c)
  \/ \E c \in CookieInputs : Whoami(c)
  \/ CreateAdmin
  \/ Sweep
  \/ Tick

SpecAuth == Init /\ [][AuthNext]_vars

\* the movie router behind the guards, with the auth routes that create the
\* sessions it is called under
MovieNext ==
  \/ \E c \in { NoCookie }, u \in { "alice", "admin" }, p \in { "secret1" } :
       RegisterStart(c, u, p)
  \/ RegisterFinish
  \/ \E c \in { NoCookie }, u \in { "alice", "admin" }, p \in { "secret1" } :
       Login(c, u, p)
  \/ \E s \in SessionIds : Logout(CookieFor(s))
  \/ \E c \in ClientCookies : CreateMovie(c)
  \/ \E op \in { "put", "delete" }, c \in ClientCookies, id \in MovieIdInputs :
       MutateStart(op, c, id)
  \/ MutateFinish
  \/ CreateAdmin

SpecMovies == Init /\ [][MovieNext]_vars

\* the routes behind the admin guards, with the routes and the script that
\* create the sessions and roles they are called under
GuardNext ==
  \/ \E u \in { "alice", "admin" }, p \in { "secret1" } :
       RegisterStart(NoCookie, u, p)
  \/ RegisterFinish
  \/ \E u \in { "alice", "admin" }, p \in { "secret1" } : Login(NoCookie, u, p)
  \/ CreateAdmin
  \/ \E c \in ClientCookies : CreateMovie(c)
  \/ \E c \in ClientCookies : AdminAll(c)
  \/ \E c \in ClientCookies, id \in MovieIdInputs : AdminDelete(c, id)
  \/ \E c \in ClientCookies : ListUsers(c)

SpecGuards == Init /\ [][GuardNext]_vars

\* the bodies of the register requests: user names that are valid, padded
\* with blanks or too short, passwords that are valid or too short, with or
\* without an e-mail address and a role field
RegisterBodies ==
  [username : { "alice", " alice ", "admin", "ab" },
   password : { "secret1", "123" },
   email : EmailInputs,
   role : { None, Some("admin") }]

\* register requests that may overlap, with login and logout
RegisterNext ==
  \/ \E b \in RegisterBodies : RegisterRequest(NoCookie, b, MaxInflight)
  \/ \E i \in 1..MaxInflight : RegisterFinishAt(i)
  \/ \E u \in { "alice", "admin" }, p \in { "secret1", "123" } :
       Login(NoCookie, u, p)
  \/ \E s \in SessionIds : Logout(CookieFor(s))

SpecRegister == Init /\ [][RegisterNext]_vars

\* the auth router started under any SESSION_MAX_AGE setting
ConfigNext ==
  \/ \E u \in { "alice" }, p \in { "secret1" } : RegisterStart(NoCookie, u, p)
  \/ RegisterFinish
  \/ \E u \in { "alice" }, p \in { "secret1" } : Login(NoCookie, u, p)
  \/ \E s \in SessionIds : Whoami(CookieFor(s))
  \/ \E s \in SessionIds : Logout(CookieFor(s))
  \/ Sweep
  \/ Tick

SpecConfig == InitConfig /\ [][ConfigNext]_vars

\* both guard chains of the movie router, requireAuth -> checkOwnership ->
\* handler and requireAdmin -> handler, with the routes and the script that
\* create the sessions and roles they are called under
ChainNext ==
  \/ \E u \in { "alice", "admin" }, p \in { "secret1" } :
       RegisterStart(NoCookie, u, p)
  \/ RegisterFinish
  \/ \E u \in { "alice", "admin" }, p \in { "secret1" } : Login(NoCookie, u, p)
  \/ CreateAdmin
  \/ \E c \in ClientCookies : CreateMovie(c)
  \/ \E op \in { "put", "delete" }, c \in ClientCookies, id \in MovieIdInputs :
       MutateStart(op, c, id)
  \/ MutateFinish
  \/ \E c \in ClientCookies : AdminAll(c)
  \/ \E c \in ClientCookies, id \in MovieIdInputs : AdminDelete(c, id)

SpecChains == Init /\ [][ChainNext]_vars

\* password fields a credential record of the collection may hold (the
\* schema asks for a non-empty string only): the record of user 'alice' as
\* register wrote it for password 'secret1', and that string without its
\* ':', with a third field, with a shorter hash part, with a hash part that
\* is not hex
StoredHashInputs ==
  LET salt == SaltOf(1)
      hash == Pbkdf2Hex("secret1", salt, "sha512")
  IN { RegisterHash("secret1", salt),
       salt \o hash,
       RegisterHash("secret1", salt) \o << ":" >> \o salt,
       salt \o << ":" >> \o SubSeq(hash, 1, Len(hash) - 2),
       salt \o << ":" >> \o [i \in 1..Len(hash) |-> "z"] }

\* the process started on a database that holds one such record
InitStored ==
  /\ \E stored \in StoredHashInputs :
       users = << [username |-> "alice", password |-> stored,
                   role |-> "user", plain |-> "secret1"] >>
  /\ sessions = << >>
  /\ issued = 0
  /\ movies = << >>
  /\ created = 0
  /\ now = StartTime
  /\ nextSweep = StartTime + SWEEP_INTERVAL
  /\ inflight = None
  /\ resp = [op |-> "none"]
  /\ loggedOut = {}
  /\ env = None

\* login, whoami and logout against that database
StoredNext ==
  \/ \E u \in { "alice", "admin" }, p \in PasswordInputs : Login(NoCookie, u, p)
  \/ \E c \in CookieInputs : Whoami(c)
  \/ \E s \in SessionIds : Logout(CookieFor(s))
  \/ Sweep
  \/ Tick

SpecStored == InitStored /\ [][StoredNext]_vars

\* register and login requests that carry whatever cookie the client holds,
\* while time passes and the sweep runs
SessionNext ==
  \/ \E c \in ClientCookies, u \in { "alice", "ab" }, p \in { "secret1" } :
       RegisterStart(c, u, p)
  \/ RegisterFinish
  \/ \E c \in ClientCookies, u \in { "alice", "admin" }, p \in PasswordInputs :
       Login(c, u, p)
  \/ Sweep
  \/ Tick

SpecSessions == Init /\ [][SessionNext]_vars

\* ------------------------------------------------------------ route table
\* one path segment: its text, and the _id it casts to (0 when the text is
\* not an ObjectId)
Seg(text) == [text |-> text, id |-> 0]
OidSeg(id) == [text |-> "objectid", id |-> id]

\* the routes of the movie router in the order they are registered
Routes ==
  << [method |-> "GET",    pattern |-> << >>,                         handler |-> "list"],
     [method |-> "GET",    pattern |-> << Seg(":id") >>,              handler |-> "get-one"],
     [method |-> "POST",   pattern |-> << >>,                         handler |-> "create"],
     [method |-> "PUT",    pattern |-> << Seg(":id") >>,              handler |-> "put"],
     [method |-> "DELETE", pattern |-> << Seg(":id") >>,              handler |-> "delete"],
     [method |-> "GET",    pattern |-> << Seg("admin"), Seg("all") >>, handler |-> "admin-all"],
     [method |-> "DELETE", pattern |-> << Seg("admin"), Seg(":id") >>, handler |-> "admin-delete"],
     [method |-> "GET",    pattern |-> << Seg("stats") >>,            handler |-> "stats"] >>

\* a route's path pattern matches the path: as many segments, each equal to
\* the pattern's, a ':id' parameter matching any one segment
PathMatches(pattern, segs) ==
  /\ Len(pattern) = Len(segs)
  /\ \A i \in 1..Len(segs) :
       pattern[i].text = ":id" \/ pattern[i].text = segs[i].text

\* the handler Express hands the request to: that of the first registered
\* route whose method and path match, "none" when no route matches (the
\* request then leaves the router and Express's default answers 404)
MatchRoute(method, segs) ==
  LET table == Routes
      hits == { i \in 1..Len(table) :
                  table[i].method = method /\ PathMatches(table[i].pattern, segs) }
  IN IF hits = {} THEN "none"
     ELSE table[CHOOSE i \in hits : \A j \in hits : i <= j].handler

\* the paths of the GET requests sent: '/', '/stats', '/admin/all',
\* '/admin/stats' and '/<an ObjectId>'
GetPaths ==
  { << >>, << Seg("stats") >>, << Seg("admin"), Seg("all") >>,
    << Seg("admin"), Seg("stats") >> }
  \cup { << OidSeg(id) >> : id \in 1..MaxMovies }

\* a GET request to the movie router, dispatched by the route table
GetRequest(cookie, segs) ==
  LET m == AppPipeline(cookie, sessions, now)
      handler == MatchRoute("GET", segs)
      Answer(status, body) ==
        /\ sessions' = m.store
        /\ resp' = Response(handler, m.session, status, body, None)
        /\ UNCHANGED << env, users, issued, movies, created, now, nextSweep,
                        inflight, loggedOut >>
  IN IF handler = "admin-all" THEN AdminAll(cookie)
     ELSE IF m.outcome = "throw"
       THEN /\ resp' = MiddlewareError(handler)
            /\ UNCHANGED << env, users, sessions, issued, movies, created, now,
                            nextSweep, inflight, loggedOut >>
     ELSE IF handler = "none" THEN Answer(404, [error |-> "Not Found"])
     ELSE IF handler = "list" THEN Answer(200, [movies |-> DOMAIN movies])
     ELSE IF handler = "stats" THEN Answer(200, [total |-> Cardinality(DOMAIN movies)])
     ELSE IF segs[1].id = 0
       THEN Answer(400, [error |-> "Invalid movie ID format"])
     ELSE IF segs[1].id \notin DOMAIN movies
       THEN Answer(404, [error |-> "Movie not found"])
     ELSE Answer(200, [id |-> segs[1].id])

\* the GET routes of the movie router, with the routes and the script that
\* create the sessions, roles and movies they answer with
RouterNext ==
  \/ \E u \in { "alice", "admin" }, p \in { "secret1" } :
       RegisterStart(NoCookie, u, p)
  \/ RegisterFinish
  \/ \E u \in { "alice", "admin" }, p \in { "secret1" } : Login(NoCookie, u, p)
  \/ CreateAdmin
  \/ \E c \in ClientCookies : CreateMovie(c)
  \/ \E c \in ClientCookies, segs \in GetPaths : GetRequest(c, segs)

SpecRouter == Init /\ [][RouterNext]_vars

\* checkOwnership('movie') called with a request, whatever ran before it:
\* req.session may be null, and reading req.session.role then throws a
\* TypeError inside the try, which the catch answers.  A response with
\* status 0 stands for next() having been called, no response sent yet
checkOwnershipAlone(cookie, id) ==
  LET m == AppPipeline(cookie, sessions, now)
      Caught == Response("ownership", m.session, 500,
                         [error |-> "Internal server error"], None)
      Proceeds == Response("ownership", m.session, 0, [called |-> "next"], None)
  IN /\ UNCHANGED << env, users, issued, movies, created, now, nextSweep,
                     inflight, loggedOut >>
     /\ IF m.outcome = "throw"
          THEN /\ resp' = MiddlewareError("ownership")
               /\ UNCHANGED sessions
        ELSE /\ sessions' = m.store
             /\ resp' =
                  IF m.session = None THEN Caught
                  ELSE IF checkOwnership(m.session[1], None) = "next" THEN Proceeds
                  ELSE IF id = 0 THEN Caught
                  ELSE LET decision == checkOwnership(m.session[1], FindMovie(id))
                       IN IF decision = "next" THEN Proceeds
                          ELSE OwnershipRefusal("ownership", m.session, decision)

\* checkOwnership on its own, under the sessions and movies the routes create
OwnershipNext ==
  \/ \E u \in { "alice", "admin" }, p \in { "secret1" } :
       RegisterStart(NoCookie, u, p)
  \/ RegisterFinish
  \/ \E u \in { "alice", "admin" }, p \in { "secret1" } : Login(NoCookie, u, p)
  \/ CreateAdmin
  \/ \E c \in ClientCookies : CreateMovie(c)
  \/ \E c \in ClientCookies, id \in MovieIdInputs : checkOwnershipAlone(c, id)

SpecOwnership == Init /\ [][OwnershipNext]_vars

\* ------------------------------------------------------------------ claims
\* the signature decodes to the bytes of the HMAC of the cookie's id
SignatureMatches(c) ==
  /\ c.present /\ c.sessionId # 0 /\ c.signature # None
  /\ BufferFromHex(c.signature[1]) = HmacDigest(c.sessionId)

\* a request of the auth router that carries cookie c is answered in this step
SessionRequest(c) ==
  \/ resp'.op = "me" /\ Whoami(c)
  \/ resp'.op = "logout" /\ Logout(c)

\* a PUT /:id or DELETE /:id request is answered in this step
MutateAnswered ==
  \/ MutateFinish
  \/ /\ inflight' = inflight
     /\ \E op \in { "put", "delete" }, c \in ClientCookies, id \in MovieIdInputs :
          MutateStart(op, c, id)

AuthorizedFor(session, movie) ==
  /\ session # None
  /\ \/ session[1].userId = IdToString(movie.createdBy)
     \/ session[1].role = "admin"

\* C1: every successful PUT /:id or DELETE /:id was issued under a session
\* whose userId is the movie's createdBy or whose role is admin, and no
\* existing movie changes or disappears in any other way
C1_OnlyOwnerOrAdminMutates ==
  [][ /\ (resp'.op \in { "put", "delete" } /\ resp'.status = 200 /\ MutateAnswered)
         => /\ resp'.body.id \in DOMAIN movies
            /\ AuthorizedFor(resp'.session, movies[resp'.body.id])
      /\ \A id \in DOMAIN movies :
           (id \notin DOMAIN movies' \/ movies'[id] # movies[id])
             => /\ resp'.op \in { "put", "delete" } /\ resp'.status = 200
                /\ resp'.body.id = id
                /\ AuthorizedFor(resp'.session, movies[id]) ]_vars

\* C1 witness: the owner, not an admin, has deleted a movie while another
\* user exists
C1_Witness ==
  /\ resp.op = "delete" /\ resp.status = 200
  /\ resp.session[1].role = "user"
  /\ Len(users) = 2
  /\ created = 1 /\ movies = << >>

\* C2: the middleware attaches a session only for a cookie whose signature
\* is the HMAC of its session id and whose id is in the store; for every
\* cookie whose signature does not match, the session is null and the
\* request continues to the route
C2_AttachOnlyIfSignedAndStored ==
  [][ \A c \in CookieInputs : SessionRequest(c) =>
        /\ resp'.session # None
             => SignatureMatches(c) /\ c.sessionId \in DOMAIN sessions
        /\ (c.present /\ ~SignatureMatches(c))
             => resp'.session = None /\ resp'.mw = "next" ]_vars

\* C3: a correctly signed cookie (CookieFor(s), which carries
\* signSessionId(s)) whose store entry has expired yields a null session,
\* and the entry is gone from the store after the middleware
C3_ExpiredEntryEvicted ==
  [][ \A s \in DOMAIN sessions :
        ( /\ sessions[s].expiresAt <= now
          /\ SessionRequest(CookieFor(s)) )
        => /\ resp'.session = None
           /\ resp'.mw = "next"
           /\ s \notin DOMAIN sessions' ]_vars

\* C3 witness: the only session ever minted is gone from the store, though
\* nobody logged out and no sweep has run yet, and whoami answered 401
C3_Witness ==
  /\ resp.op = "me" /\ resp.status = 401
  /\ issued = 1 /\ 1 \notin DOMAIN sessions
  /\ loggedOut = {}
  /\ nextSweep = StartTime + SWEEP_INTERVAL

\* C4: for every cookie value the middleware ends by calling next(), with a
\* null session unless the signature verifies; it never raises an error
C4_MiddlewareNeverThrows ==
  [][ \A c \in CookieInputs : SessionRequest(c) =>
        /\ resp'.mw = "next"
        /\ resp'.status # 500
        /\ ~SignatureMatches(c) => resp'.session = None ]_vars

\* C5: once a logout with a valid session cookie has completed, that session
\* id is never in the store again, every later request with the same cookie
\* runs with a null session, and whoami answers 401
C5_LoggedOutStaysOut ==
  /\ [](loggedOut \cap DOMAIN sessions = {})
  /\ [][ \A s \in loggedOut :
           /\ (resp'.op = "me" /\ Whoami(CookieFor(s)))
                => resp'.session = None /\ resp'.status = 401
           /\ (resp'.op = "logout" /\ Logout(CookieFor(s)))
                => resp'.session = None ]_vars

\* C5 witness: a session was logged out while it was still unexpired, and a
\* later whoami was answered 401
C5_Witness ==
  /\ resp.op = "me" /\ resp.status = 401
  /\ loggedOut = { 1 }
  /\ now = StartTime

\* C6: logout succeeds for every cookie, and a second logout with the same
\* cookie leaves the store as the first left it
C6_LogoutAlwaysSucceeds ==
  [][ \A c \in CookieInputs : (resp'.op = "logout" /\ Logout(c)) =>
        /\ resp'.status = 200
        /\ resp'.body = [message |-> "Logout successful"]
        /\ LogoutStore(SessionMiddleware(c, sessions', now')) = sessions' ]_vars

\* C7: login with an existing user name and a wrong password, and login with
\* a user name that does not exist, get the same 401 'Invalid credentials'
\* response; neither creates a session nor sets a cookie
C7_UniformInvalidCredentials ==
  [][ (resp'.op = "login" /\ UNCHANGED << users, now, nextSweep, inflight >>) =>
      \A u \in UsernameInputs, p \in Passwords :
        ( /\ \/ FindUser(Trim(u)) = None
             \/ /\ FindUser(Trim(u)) # None
                /\ users[FindUser(Trim(u))[1]].plain # p
          /\ Login(NoCookie, u, p) )
        => /\ resp'.status = 401
           /\ resp'.body = [error |-> "Invalid credentials"]
           /\ resp'.setCookie = None
           /\ sessions' = sessions
           /\ issued' = issued ]_vars

\* C7 witness: a login was refused with 401 while a registered user exists
\* whose password differs from one of the passwords tried
C7_Witness ==
  /\ resp.op = "login" /\ resp.status = 401
  /\ Len(users) = 1 /\ users[1].username = "alice"
  /\ sessions = << >> /\ issued = 1

\* C8: every credential record stored with hash(p), by register or by the
\* admin script, verifies with p at login and with User.verifyPassword, and
\* rejects the other passwords
C8_HashVerifyRoundTrip ==
  \A i \in DOMAIN users :
    /\ LoginPasswordCheck(users[i].plain, users[i].password) = "true"
    /\ verifyPassword(users[i].plain, users[i].password)
    /\ \A p \in Passwords \ { users[i].plain } :
         /\ LoginPasswordCheck(p, users[i].password) # "true"
         /\ ~verifyPassword(p, users[i].password)

\* C9: verifySessionId(s, signSessionId(s)) is true, and it is false for
\* every signature string that differs from signSessionId(s)
C9_VerifyExactSignature ==
  [][ \A c \in CookieInputs :
        ( /\ c.present /\ c.signature # None /\ c.signature # Some(<< >>)
          /\ SessionRequest(c) )
        => verifySessionId(c.sessionId, c.signature[1])
             = IF c.signature[1] = signSessionId(c.sessionId)
                 THEN "true" ELSE "false" ]_vars

\* C10: no entry stays in the store for more than one sweep interval after
\* its expiresAt, and a sweep removes exactly the entries whose expiresAt
\* is in the past
C10_SweptWithinInterval ==
  /\ [](\A s \in DOMAIN sessions : now <= sessions[s].expiresAt + SWEEP_INTERVAL)
  /\ [][ nextSweep' # nextSweep =>
           /\ DOMAIN sessions' =
                { s \in DOMAIN sessions : ~(sessions[s].expiresAt < now) }
           /\ \A s \in DOMAIN sessions' : sessions'[s] = sessions[s] ]_vars

\* C10 witness: the last response minted the only session, nothing was
\* requested since, a sweep has run and the session is gone
C10_Witness ==
  /\ resp.op = "register" /\ resp.status = 201
  /\ issued = 1 /\ 1 \notin DOMAIN sessions
  /\ nextSweep > StartTime + SWEEP_INTERVAL

\* the session lifetime in force: the configured number of ticks, or the
\* default
ConfiguredTtl ==
  IF env # None /\ env[1] # << >> THEN ToNumber(env[1]) ELSE SESSION_MAX_AGE

\* C11: a session minted by register or login at time t has expiresAt equal
\* to the number t + TTL, for the default TTL and for a TTL given through
\* SESSION_MAX_AGE, and a request is authenticated under a stored session
\* only before that session's expiresAt
C11_ExpiresAtIsMintTimePlusTtl ==
  [][ /\ \A s \in DOMAIN sessions' \ DOMAIN sessions :
           sessions'[s].expiresAt = now + ConfiguredTtl
      /\ \A s \in DOMAIN sessions :
           (resp'.op = "me" /\ resp'.status = 200 /\ Whoami(CookieFor(s)))
             => now < sessions[s].expiresAt ]_vars

\* the statuses with which the PUT and DELETE handlers answer once both
\* guards have called next()
HandlerStatuses == { 200, 400, 404 }

\* C12: for an authenticated PUT /:id or DELETE /:id, checkOwnership lets an
\* admin proceed without looking the movie up; for a non-admin it looks the
\* movie up and answers 404 when there is none, 403 when createdBy differs
\* from the session's userId, and proceeds when they are equal
C12_OwnershipDecisionTable ==
  [][ ( /\ resp'.op \in { "put", "delete" }
        /\ resp'.mw = "next"
        /\ requireAuth(resp'.session)
        /\ MutateAnswered )
      => IF resp'.session[1].role = "admin"
           THEN inflight' = inflight /\ resp'.status \in HandlerStatuses
         ELSE /\ inflight' # inflight
              /\ LET r == inflight[1]
                 IN IF r.resource = None THEN resp'.status = 404
                    ELSE IF IdToString(r.resource[1].createdBy) # r.session[1].userId
                      THEN resp'.status = 403
                    ELSE resp'.status \in HandlerStatuses ]_vars

\* a request to a route behind requireAdmin is answered in this step
AdminAnswered ==
  \/ resp'.op = "admin-all" /\ \E c \in ClientCookies : AdminAll(c)
  \/ /\ resp'.op = "admin-delete"
     /\ \E c \in ClientCookies, id \in MovieIdInputs : AdminDelete(c, id)

\* C13: requireAdmin lets a request reach the handler only under a session
\* with a userId and role admin; a request with no session is answered 401
\* or redirected to /login, never 403; an authenticated request whose role
\* is not admin is answered 403
C13_AdminGuard ==
  [][ (AdminAnswered /\ resp'.mw = "next") =>
        IF ~requireAuth(resp'.session)
          THEN \/ resp'.status = 401
                  /\ resp'.body = [error |-> "Authentication required"]
               \/ resp'.status = 302 /\ resp'.body = [redirect |-> "/login"]
        ELSE IF resp'.session[1].role # "admin"
          THEN resp'.status = 403 /\ movies' = movies
        ELSE resp'.status \in HandlerStatuses ]_vars

\* C13 witness: DELETE /admin/:id has deleted a movie under an admin
\* session, while a session with role user is in the store as well
C13_Witness ==
  /\ resp.op = "admin-delete" /\ resp.status = 200
  /\ resp.session[1].role = "admin"
  /\ created = 1 /\ movies = << >>
  /\ \E s \in DOMAIN sessions : sessions[s].data.role = "user"

\* a request to a route behind requireAuth is answered, or suspended at
\* checkOwnership's await, in this step
RequireAuthPassed ==
  \/ resp'.op = "create" /\ \E c \in ClientCookies : CreateMovie(c)
  \/ MutateAnswered

MutateSuspended ==
  /\ inflight' # inflight /\ inflight' # None
  /\ \E op \in { "put", "delete" }, c \in ClientCookies, id \in MovieIdInputs :
       MutateStart(op, c, id)

\* C14: requireAuth calls the next handler if and only if the session
\* context is non-null and carries a userId; otherwise the handler does not
\* run, and the response is 401 'Authentication required' when the request
\* is for a path under /api/ (as every request to the movie router is) and
\* a redirect to /login otherwise
C14_RequireAuth ==
  [][ /\ ( /\ resp'.op \in { "create", "put", "delete" }
           /\ resp'.mw = "next"
           /\ RequireAuthPassed )
         => IF requireAuth(resp'.session)
              THEN resp'.status \notin { 401, 302 }
              ELSE /\ IF PathStartsWithApi(OriginalUrl(RoutePath(<< >>, TRUE)))
                        THEN /\ resp'.status = 401
                             /\ resp'.body = [error |-> "Authentication required"]
                        ELSE /\ resp'.status = 302
                             /\ resp'.body = [redirect |-> "/login"]
                   /\ movies' = movies /\ created' = created
                   /\ inflight' = inflight
      /\ MutateSuspended => requireAuth(inflight'[1].session) ]_vars

\* C15: GET /users returns the credential records only under a session
\* whose role is admin, no returned record has a password field, and its
\* outcome for every request is the one requireAdmin prescribes: no session,
\* 401; authenticated and not admin, 403; admin, the list
C15_ListUsersAsRequireAdmin ==
  [][ ( /\ resp'.op = "users" /\ resp'.mw = "next"
        /\ \E c \in ClientCookies : ListUsers(c) )
      => LET refusal == requireAdmin("users", resp'.session, TRUE)
         IN /\ resp'.status = 200
                 => /\ resp'.session # None
                    /\ resp'.session[1].role = "admin"
                    /\ \A i \in DOMAIN resp'.body.users :
                         "password" \notin DOMAIN resp'.body.users[i]
            /\ IF refusal # None
                 THEN resp'.status = refusal[1].status
                 ELSE resp'.status = 200 ]_vars

\* the rules a register request violates
ViolatedRules(body) ==
  { msg \in { "Username must be at least 3 characters",
              "Password must be at least 6 characters",
              "Invalid email format",
              "Username already exists" } :
      \/ /\ msg = "Username must be at least 3 characters"
         /\ StrLen[Trim(body.username)] < 3
      \/ /\ msg = "Password must be at least 6 characters"
         /\ StrLen[body.password] < 6
      \/ /\ msg = "Invalid email format"
         /\ body.email # None /\ ~EmailMatches(body.email[1])
      \/ /\ msg = "Username already exists"
         /\ FindUser(Trim(body.username)) # None }

\* C16: the 400 response to a register request lists every rule the request
\* violates, and the request creates no credential record and no session
C16_AllViolationsListed ==
  [][ resp'.op = "register" =>
        \A b \in RegisterBodies :
          (ViolatedRules(b) # {} /\ RegisterRequest(NoCookie, b, MaxInflight))
            => /\ resp'.status = 400
               /\ { resp'.body.error } = ViolatedRules(b)
               /\ users' = users /\ sessions' = sessions
               /\ inflight' = inflight ]_vars

\* C17: every credential record and every session created through register,
\* login and logout has role user, whatever the request bodies contain
C17_RegisterRoleIsUser ==
  /\ \A i \in DOMAIN users : users[i].role = "user"
  /\ \A s \in DOMAIN sessions : sessions[s].data.role = "user"
  /\ \A i \in DOMAIN inflight : inflight[i].role = "user"

\* C17 witness: both user names are registered, one of them named admin,
\* and the last register was answered 201 with role user
C17_Witness ==
  /\ Len(users) = 2
  /\ \E i \in DOMAIN users : users[i].username = "admin"
  /\ resp.op = "register" /\ resp.status = 201
  /\ resp.body.user.role = "user"

\* C18: of register requests with the same user name that overlap, exactly
\* one creates a credential record and a session; each other one is
\* answered 400 'Username already exists' and creates nothing
C18_ConcurrentRegisterOneWins ==
  /\ [](\A i, j \in DOMAIN users :
          users[i].username = users[j].username => i = j)
  /\ [][ \A i \in DOMAIN inflight :
           (FindUser(inflight[i].username) # None /\ RegisterFinishAt(i))
             => /\ resp'.status = 400
                /\ resp'.body = [error |-> "Username already exists"]
                /\ users' = users /\ sessions' = sessions ]_vars

\* the session data of the credential record with _id i
IdentityOf(i, record) ==
  [userId |-> IdToString(i), username |-> record.username, role |-> record.role]

\* C19: every store entry is minted by a successful register or login and
\* carries the userId, username and role of the credential record that
\* authenticated, and is never altered; the userId is the _id of the record
\* with that user name, so a later login reports the same userId; whoami
\* answers with exactly the three values of the session, and 401 when the
\* context is null
C19_SessionCarriesIdentity ==
  /\ [](\A s \in DOMAIN sessions :
          LET d == sessions[s].data
          IN /\ CastObjectId(d.userId) \in DOMAIN users
             /\ users[CastObjectId(d.userId)].username = d.username)
  /\ [][ /\ \A s \in DOMAIN sessions' \ DOMAIN sessions :
             /\ resp'.op \in { "register", "login" }
             /\ resp'.status = IF resp'.op = "register" THEN 201 ELSE 200
             /\ resp'.setCookie = Some(CookieFor(s))
             /\ resp'.body.user.id \in DOMAIN users'
             /\ sessions'[s].data =
                  IdentityOf(resp'.body.user.id, users'[resp'.body.user.id])
             /\ resp'.body.user.username = sessions'[s].data.username
             /\ resp'.body.user.role = sessions'[s].data.role
         /\ \A s \in DOMAIN sessions \cap DOMAIN sessions' :
             sessions'[s] = sessions[s]
         /\ ( /\ resp'.op = "me"
              /\ UNCHANGED << users, now, nextSweep, inflight >>
              /\ \E c \in CookieInputs : Whoami(c) )
             => IF resp'.mw = "throw" THEN TRUE
                ELSE IF resp'.session = None THEN resp'.status = 401
                ELSE /\ resp'.status = 200
                     /\ resp'.body = resp'.session[1]
                     /\ \E s \in DOMAIN sessions :
                          /\ resp'.session[1] = sessions[s].data
                          /\ Whoami(CookieFor(s)) ]_vars

\* C19 witness: whoami answered with role admin: the session was minted by
\* a login after the record was promoted
C19_Witness ==
  /\ resp.op = "me" /\ resp.status = 200
  /\ resp.body.role = "admin"
  /\ resp.body.username = "admin"

\* C20: for every cookie and every store the program reaches, running the
\* session middleware a second time at the same instant, on the store the
\* first run left, gives the session context and the store of the first run
C20_MiddlewareIdempotent ==
  \A c \in CookieInputs :
    LET once == SessionMiddleware(c, sessions, now)
        twice == SessionMiddleware(c, once.store, now)
    IN /\ twice.outcome = once.outcome
       /\ twice.session = once.session
       /\ twice.sessionId = once.sessionId
       /\ twice.store = once.store

\* C20 witness: the store holds an expired entry, which a first run
\* deletes, and an entry under which whoami was just authenticated
C20_Witness ==
  /\ resp.op = "me" /\ resp.status = 200
  /\ \E s \in DOMAIN sessions : sessions[s].expiresAt <= now
  /\ \E s \in DOMAIN sessions :
       /\ sessions[s].expiresAt > now
       /\ resp.session = Some(sessions[s].data)

\* the refusals requireAuth can send, whatever the path
AuthRefusals(op, session) ==
  { AuthRefusal(op, session, pathIsApi) : pathIsApi \in BOOLEAN }

\* the refusals checkOwnership can send: 404, 403, and 500 from its catch
OwnershipRefusals(op, session) ==
  { OwnershipRefusal(op, session, "404"), OwnershipRefusal(op, session, "403"),
    Response(op, session, 500, [error |-> "Internal server error"], None) }

\* C21: in the chains requireAuth -> checkOwnership -> handler and
\* requireAdmin -> handler the first guard that fails determines the
\* response, no later guard or handler runs, and the movie collection, the
\* credential collection and the session store are as they were when the
\* request entered the first guard
C21_FirstFailingGuardDecides ==
  [][ /\ ( /\ resp'.op \in { "put", "delete" } /\ resp'.mw = "next"
           /\ inflight' = inflight
           /\ UNCHANGED << users, issued, created, now >> )
         => \A c \in ClientCookies, id \in MovieIdInputs :
              MutateStart(resp'.op, c, id)
              => LET m == AppPipeline(c, sessions, now)
                 IN /\ ~requireAuth(m.session)
                         => /\ resp' \in AuthRefusals(resp'.op, m.session)
                            /\ movies' = movies /\ sessions' = m.store
                    /\ (requireAuth(m.session) /\ m.session[1].role # "admin")
                         => /\ resp' \in OwnershipRefusals(resp'.op, m.session)
                            /\ movies' = movies /\ sessions' = m.store
      /\ ( /\ inflight # None /\ inflight' = None
           /\ MutateFinish
           /\ checkOwnership(inflight[1].session[1], inflight[1].resource) # "next" )
         => /\ resp' \in OwnershipRefusals(inflight[1].op, inflight[1].session)
            /\ movies' = movies /\ users' = users /\ sessions' = sessions
      /\ ( /\ resp'.op \in { "admin-all", "admin-delete" } /\ resp'.mw = "next"
           /\ UNCHANGED << users, issued, created, now, inflight >> )
         => \A c \in ClientCookies :
              ( \/ AdminAll(c)
                \/ \E id \in MovieIdInputs : AdminDelete(c, id) )
              => LET m == AppPipeline(c, sessions, now)
                 IN ( \/ ~requireAuth(m.session)
                      \/ m.session[1].role # "admin" )
                    => /\ \E pathIsApi \in BOOLEAN :
                            Some(resp') = requireAdmin(resp'.op, m.session, pathIsApi)
                       /\ movies' = movies /\ sessions' = m.store ]_vars

\* C21 witness: checkOwnership has refused, with 403, a request to delete
\* another user's movie, and the movie is still there
C21_Witness ==
  /\ resp.op = "delete" /\ resp.status = 403
  /\ created = 1 /\ 1 \in DOMAIN movies
  /\ IdToString(movies[1].createdBy) # resp.session[1].userId

\* the stored password field is not what register writes: not exactly two
\* ':'-separated fields, or a hash part that is not the hex of a key of the
\* length PBKDF2 is asked for
MalformedHash(stored) ==
  LET parts == SplitColon(stored)
  IN \/ Len(parts) # 2
     \/ Len(parts[2]) # Len(Pbkdf2Hex("secret1", parts[1], "sha512"))
     \/ \E i \in 1..Len(parts[2]) : HexVal(parts[2][i]) < 0

\* C22: a login against a record whose stored hash is malformed does not
\* throw out of verification: it is answered 401 'Invalid credentials' as a
\* wrong password is, never with a distinct error, and no session is created
C22_MalformedHashIsInvalidCredentials ==
  [][ ( /\ resp'.op = "login"
        /\ UNCHANGED << users, now, nextSweep, inflight >>
        /\ \E p \in Passwords : Login(NoCookie, "alice", p)
        /\ MalformedHash(users[1].password) )
      => /\ resp'.status = 401
         /\ resp'.body = [error |-> "Invalid credentials"]
         /\ resp'.setCookie = None
         /\ sessions' = sessions /\ issued' = issued ]_vars

MiddlewareAccepts(entry, t) == entry.expiresAt > t

\* C24: the sweep and the middleware agree on what expired means: right
\* after a sweep at time now every entry left in the store is one the
\* middleware accepts at that same time, an entry whose expiresAt equals
\* now included
C24_SweepAgreesWithMiddleware ==
  [][ Sweep => \A s \in DOMAIN sessions' :
                 /\ MiddlewareAccepts(sessions'[s], now)
                 /\ SessionMiddleware(CookieFor(s), sessions', now).session # None ]_vars

\* the step added exactly one entry, under a session id never issued
\* before, sent that id as the cookie, and left every other entry as it was
AddsOneSession ==
  \E new \in DOMAIN sessions' \ DOMAIN sessions :
    /\ new > issued
    /\ DOMAIN sessions' = DOMAIN sessions \cup { new }
    /\ \A k \in DOMAIN sessions : sessions'[k] = sessions[k]
    /\ resp'.setCookie = Some(CookieFor(new))

C26_OwnershipRefusesNullSession ==
  [][ ( /\ resp'.op = "ownership" /\ resp'.mw = "next"
        /\ resp'.session = None
        /\ \E c \in ClientCookies, id \in MovieIdInputs : checkOwnershipAlone(c, id) )
      => /\ resp'.body # [called |-> "next"]
         /\ resp'.status # 500
         /\ resp' \in AuthRefusals("ownership", None) ]_vars

\* C27: with the routes matched in registration order, a GET /stats request
\* is handled by the statistics handler and a GET /admin/all request by the
\* admin-only listing handler; neither is captured by GET /:id
C27_StatsAndAdminAllReachTheirHandlers ==
  [][ \A c \in ClientCookies :
        /\ (GetRequest(c, << Seg("stats") >>) /\ resp'.mw = "next")
             => resp'.op = "stats"
        /\ (GetRequest(c, << Seg("admin"), Seg("all") >>) /\ resp'.mw = "next")
             => resp'.op = "admin-all" ]_vars

====
